---- MODULE Spec2Model ----
(***************************************************************************)
(* Gaming Utility Bot (src/gaming.py): the conversation state machine of   *)
(* the three callback routers and the universal text router, the profile   *)
(* store (profiles.json), the device catalog, the heuristic device profile *)
(* and the cm/360 -> sensitivity conversion.                               *)
(*                                                                         *)
(* Python strings are sequences of one-character strings, so that strip,   *)
(* lower, isdigit, int, float, "in" and startswith are computed as Python  *)
(* computes them.  A dict.get() result is a tagged record: the key may be  *)
(* absent, hold None, or hold a value.                                     *)
(***************************************************************************)
EXTENDS Integers, Sequences, FiniteSets, TLC

(***************************************************************************)
(* Strings                                                                 *)
(***************************************************************************)
UpperChars == <<"A","B","C","D","E","F","G","H","I","J","K","L","M",
                "N","O","P","Q","R","S","T","U","V","W","X","Y","Z">>
LowerChars == <<"a","b","c","d","e","f","g","h","i","j","k","l","m",
                "n","o","p","q","r","s","t","u","v","w","x","y","z">>
AsciiDigits == <<"0","1","2","3","4","5","6","7","8","9">>
\* U+00B2 SUPERSCRIPT TWO: str.isdigit() is True for it, int() rejects it.
SuperscriptTwo == "sup2"

IndexIn(c, chars) == CHOOSE i \in 1..Len(chars) : chars[i] = c
IsIn(c, chars) == \E i \in 1..Len(chars) : chars[i] = c

LowerChar(c) == IF IsIn(c, UpperChars) THEN LowerChars[IndexIn(c, UpperChars)] ELSE c
UpperChar(c) == IF IsIn(c, LowerChars) THEN UpperChars[IndexIn(c, LowerChars)] ELSE c

\* str.lower() / str.upper()
lower(s) == [i \in 1..Len(s) |-> LowerChar(s[i])]
upper(s) == [i \in 1..Len(s) |-> UpperChar(s[i])]

\* str.strip()
strip(s) ==
    LET keep == {i \in 1..Len(s) : s[i] # " "}
    IN  IF keep = {} THEN <<>>
        ELSE LET lo == CHOOSE i \in keep : \A j \in keep : i <= j
                 hi == CHOOSE i \in keep : \A j \in keep : i >= j
             IN  SubSeq(s, lo, hi)

\* k in s
contains(s, k) ==
    \E i \in 1..(Len(s) - Len(k) + 1) : SubSeq(s, i, i + Len(k) - 1) = k

\* s.startswith(k)
startswith(s, k) == Len(s) >= Len(k) /\ SubSeq(s, 1, Len(k)) = k

\* any(k in s for k in keys)
any_in(s, keys) == \E i \in 1..Len(keys) : contains(s, keys[i])

\* str.isdigit(): non-empty and every character has the Unicode digit property
isdigit(s) ==
    /\ Len(s) > 0
    /\ \A i \in 1..Len(s) : IsIn(s[i], AsciiDigits) \/ s[i] = SuperscriptTwo

AllAsciiDigits(s) == Len(s) > 0 /\ \A i \in 1..Len(s) : IsIn(s[i], AsciiDigits)

RECURSIVE DigitsValue(_)
DigitsValue(s) ==
    IF Len(s) = 0 THEN 0
    ELSE 10 * DigitsValue(SubSeq(s, 1, Len(s) - 1)) + (IndexIn(s[Len(s)], AsciiDigits) - 1)

RECURSIVE Pow10(_)
Pow10(n) == IF n = 0 THEN 1 ELSE 10 * Pow10(n - 1)

\* int(s): [ok |-> FALSE] is ValueError
int(s) ==
    IF AllAsciiDigits(s) THEN [ok |-> TRUE, val |-> DigitsValue(s)]
    ELSE [ok |-> FALSE, val |-> 0]

(***************************************************************************)
(* Floats.  A float is nan, +/-inf or the decimal (-1)^neg * num / den,    *)
(* den a power of ten.  float(s) accepts an optional sign followed by      *)
(* digits with an optional fraction, or by nan / inf / infinity in any     *)
(* letter case; everything else is ValueError.                             *)
(***************************************************************************)
Num(neg, num, den) == [kind |-> "num", neg |-> neg, num |-> num, den |-> den]
NaN == [kind |-> "nan", neg |-> FALSE, num |-> 0, den |-> 1]
Inf(neg) == [kind |-> "inf", neg |-> neg, num |-> 0, den |-> 1]
FloatOfInt(n) == Num(FALSE, n, 1)

DotAt(s) == IF \E i \in 1..Len(s) : s[i] = "." THEN CHOOSE i \in 1..Len(s) : s[i] = "." ELSE 0

float(txt) ==
    LET signed == Len(txt) > 0 /\ txt[1] \in {"-", "+"}
        neg    == Len(txt) > 0 /\ txt[1] = "-"
        body   == IF signed THEN SubSeq(txt, 2, Len(txt)) ELSE txt
        low    == lower(body)
        dot    == DotAt(body)
        ip     == IF dot = 0 THEN body ELSE SubSeq(body, 1, dot - 1)
        fp     == IF dot = 0 THEN <<>> ELSE SubSeq(body, dot + 1, Len(body))
        digitsOrEmpty(p) == Len(p) = 0 \/ AllAsciiDigits(p)
    IN  IF low = <<"n","a","n">> THEN [ok |-> TRUE, val |-> NaN]
        ELSE IF low \in {<<"i","n","f">>, <<"i","n","f","i","n","i","t","y">>}
             THEN [ok |-> TRUE, val |-> Inf(neg)]
        ELSE IF /\ digitsOrEmpty(ip) /\ digitsOrEmpty(fp)
                /\ Len(ip) + Len(fp) > 0
             THEN [ok |-> TRUE,
                   val |-> Num(neg, DigitsValue(ip \o fp), Pow10(Len(fp)))]
        ELSE [ok |-> FALSE, val |-> NaN]

IsPositive(x) == \/ x.kind = "inf" /\ ~x.neg
                 \/ x.kind = "num" /\ ~x.neg /\ x.num > 0

(***************************************************************************)
(* cm360_to_sensitivity (lines 205-213).                                   *)
(*   inches = cm360 * 0.393701                                             *)
(*   raw    = 360 / (inches * dpi) if inches > 0 else 0                    *)
(*   return round(raw * game_scale, 4)         game_scale = 0.022          *)
(* The result is kept in units of 10^-4:                                   *)
(*   360 * 0.022 * 10^4 / (0.393701 * cm360 * dpi)                         *)
(*     = 79200000000 * den / (393701 * num * dpi),                         *)
(* and 79200000000 = 393701 * ScaledQuot + ScaledRem, which keeps every    *)
(* intermediate value inside 32 bits.  The quotient is rounded to the      *)
(* nearest integer, a tie to the even one, as round() does.                *)
(* [kind |-> "raise"] is ZeroDivisionError (inches > 0 and dpi = 0).       *)
(***************************************************************************)
InchPerCmMicro == 393701
ScaledQuot == 201167
ScaledRem == 350933

Sens(e4) == [kind |-> "num", e4 |-> e4]
SensNaN == [kind |-> "nan", e4 |-> 0]
SensRaise == [kind |-> "raise", e4 |-> 0]

RoundedQuotient(num, den, dpi) ==
    LET K  == num * dpi
        N  == den * ScaledQuot + ((den * ScaledRem) \div InchPerCmMicro)
        r2 == (den * ScaledRem) % InchPerCmMicro
        a  == N \div K
        b  == N % K
        t  == (2 * r2) \div InchPerCmMicro
        s  == (2 * r2) % InchPerCmMicro
        twice == 2 * b + t
    IN  IF twice > K \/ (twice = K /\ s > 0) THEN a + 1
        ELSE IF twice = K /\ s = 0 THEN (IF a % 2 = 1 THEN a + 1 ELSE a)
        ELSE a

\* A conversion that cuts the result off after the fourth decimal place
cm360_to_sensitivity_truncated(cm360, dpi) ==
    IF ~IsPositive(cm360) THEN Sens(0)
    ELSE IF cm360.kind = "inf"
         THEN (IF dpi = 0 THEN SensNaN ELSE Sens(0))
    ELSE IF dpi = 0 THEN SensRaise
    ELSE Sens((cm360.den * ScaledQuot
               + ((cm360.den * ScaledRem) \div InchPerCmMicro))
              \div (cm360.num * dpi))

cm360_to_sensitivity(cm360, dpi) ==
    IF ~IsPositive(cm360) THEN Sens(0)               \* inches > 0 is False
    ELSE IF cm360.kind = "inf"
         THEN (IF dpi = 0 THEN SensNaN ELSE Sens(0))  \* inf * 0 = nan
    ELSE IF dpi = 0 THEN SensRaise                    \* 360 / 0.0
    ELSE Sens(RoundedQuotient(cm360.num, cm360.den, dpi))

(***************************************************************************)
(* dict.get() results, JSON values                                         *)
(***************************************************************************)
Absent == [tag |-> "absent", val |-> <<>>]      \* key not in the dict
None == [tag |-> "none", val |-> <<>>]          \* key holds None
Str(s) == [tag |-> "str", val |-> s]
NoInt == [tag |-> "absent", val |-> 0]
IntVal(n) == [tag |-> "int", val |-> n]

\* d.get(key, default) for a string-valued key
GetOr(opt, default) == IF opt.tag = "absent" THEN Str(default) ELSE opt
\* d.get(key): None when the key is absent
GetOrNone(opt) == IF opt.tag = "absent" THEN None ELSE opt

JNull == [tag |-> "null", val |-> <<>>]
JString(s) == [tag |-> "string", val |-> s]

(***************************************************************************)
(* Literals of the source                                                  *)
(***************************************************************************)
S_freefire == <<"f","r","e","e","f","i","r","e">>
S_bgmi == <<"b","g","m","i">>
S_cod == <<"c","o","d">>
S_unknown == <<"u","n","k","n","o","w","n">>
S_UnknownDevice == <<"U","n","k","n","o","w","n"," ","d","e","v","i","c","e">>
S_default == <<"d","e","f","a","u","l","t">>
S_load_profile == <<"l","o","a","d"," ","p","r","o","f","i","l","e">>
S_help == <<"h","e","l","p">>
S_iphone == <<"i","p","h","o","n","e">>
S_poco_x3 == <<"p","o","c","o"," ","x","3">>
S_iphone_12 == <<"i","p","h","o","n","e"," ","1","2">>
S_oneplus_9 == <<"o","n","e","p","l","u","s"," ","9">>

\* callback_data of the buttons (lines 220-222, 244-247, 276-284)
D_start_main == <<"s","t","a","r","t","_","m","a","i","n">>
D_password == <<"p","a","s","s","w","o","r","d">>
D_menu_games == <<"m","e","n","u","_","g","a","m","e","s">>
D_game_freefire == <<"g","a","m","e","_","f","r","e","e","f","i","r","e">>
D_game_bgmi == <<"g","a","m","e","_","b","g","m","i">>
D_game_cod == <<"g","a","m","e","_","c","o","d">>
D_cancel == <<"c","a","n","c","e","l">>
D_game_prefix == <<"g","a","m","e","_">>
D_sub_sensitivity == <<"s","u","b","_","s","e","n","s","i","t","i","v","i","t","y">>
D_sub_internal == <<"s","u","b","_","i","n","t","e","r","n","a","l">>
D_sub_lagfix == <<"s","u","b","_","l","a","g","f","i","x">>
D_sub_ingame == <<"s","u","b","_","i","n","g","a","m","e">>
D_sub_problems == <<"s","u","b","_","p","r","o","b","l","e","m","s">>
D_sub_controls == <<"s","u","b","_","c","o","n","t","r","o","l","s">>
D_sub_save_profile == <<"s","u","b","_","s","a","v","e","_","p","r","o","f","i","l","e">>
D_sub_load_profile == <<"s","u","b","_","l","o","a","d","_","p","r","o","f","i","l","e">>
D_back_games == <<"b","a","c","k","_","g","a","m","e","s">>

\* os.environ.get("BOT_PASSWORD", "1234") with the variable unset (line 406)
BOT_PASSWORD == <<"1","2","3","4">>
\* context.user_data.get('dpi', 480) (line 439)
DefaultDpi == 480

GameIds == <<S_freefire, S_bgmi, S_cod>>

\* SUPPORTED_GAMES.get(data, None) (lines 119-123, 262)
SUPPORTED_GAMES(data) ==
    IF data = D_game_freefire THEN Str(S_freefire)
    ELSE IF data = D_game_bgmi THEN Str(S_bgmi)
    ELSE IF data = D_game_cod THEN Str(S_cod)
    ELSE None

(***************************************************************************)
(* Catalog (DEVICES, lines 47-117)                                         *)
(***************************************************************************)
Preset(dpi, cm, graphics, fps) ==
    [dpi |-> dpi, cm360_suggested |-> cm,
     recommended_in_game |-> [graphics |-> graphics, fps |-> fps]]

DeviceKeys == {S_poco_x3, S_iphone_12, S_oneplus_9}

DEVICES(key) ==
    IF key = S_poco_x3 THEN
      [ram_gb |-> 6, cpu_tier |-> "mid",
       presets |-> (S_freefire :> Preset(480, <<25, 30, 35>>, "Medium", "30-60 (try 40)")
                 @@ S_bgmi     :> Preset(480, <<30, 35, 40>>, "Medium", "30")
                 @@ S_cod      :> Preset(480, <<25, 30, 35>>, "Medium", "60 (if stable)")),
       internal_steps |-> <<"Reboot device before starting.",
                            "Enable High Performance in battery settings.",
                            "Disable battery saver and aggressive background restrictions for the game.",
                            "Keep at least 3 GB free storage.",
                            "Turn off adaptive brightness while gaming.">>,
       lag_fix |-> <<"Close background apps and clear cache.",
                     "Limit background sync and auto-updates while playing.",
                     "Use Wi-Fi for stable connection; check ping.",
                     "If overheating, lower graphics to Low/Medium.">>]
    ELSE IF key = S_iphone_12 THEN
      [ram_gb |-> 4, cpu_tier |-> "high",
       presets |-> (S_freefire :> Preset(400, <<18, 20, 22>>, "High", "60")
                 @@ S_bgmi     :> Preset(400, <<20, 22, 25>>, "High", "60")
                 @@ S_cod      :> Preset(400, <<18, 20, 22>>, "High", "60")),
       internal_steps |-> <<"Close unnecessary background apps (swipe up).",
                            "Keep iOS updated for best performance.",
                            "Disable Low Power Mode while gaming.",
                            "Free at least 10% storage for optimal performance.">>,
       lag_fix |-> <<"Turn off background app refresh for heavy apps.",
                     "Use Airplane mode + Wi-Fi to reduce mobile network interruptions.",
                     "If crash persists, reinstall game.">>]
    ELSE
      [ram_gb |-> 8, cpu_tier |-> "high",
       presets |-> (S_freefire :> Preset(560, <<18, 22, 26>>, "High", "60")
                 @@ S_bgmi     :> Preset(560, <<20, 22, 24>>, "High", "60")
                 @@ S_cod      :> Preset(560, <<18, 20, 22>>, "High", "60")),
       internal_steps |-> <<"Enable Performance Mode (Settings -> Battery -> Performance).",
                            "Disable background auto-start for unneeded apps.",
                            "Keep phone cool; avoid charging while gaming.">>,
       lag_fix |-> <<"Clear game cache, reboot, and test again.",
                     "Reduce render distance and shadows if thermal throttling occurs.">>]

\* presets.get(game, {}): the empty dict is [found |-> FALSE]
NoPreset == [found |-> FALSE, preset |-> Preset(0, <<>>, "", "")]
PresetGet(presets, game) ==
    IF game \in DOMAIN presets THEN [found |-> TRUE, preset |-> presets[game]]
    ELSE NoPreset

\* get_device_key (lines 139-140)
get_device_key(name) == lower(strip(name))

(***************************************************************************)
(* dynamic_device_profile (lines 142-203)                                  *)
(***************************************************************************)
LowTierTokens == <<<<"l","i","t","e">>, <<"y">>, <<"e","n","t","r","y">>, <<"c","3">>, <<"a","0","3">>>>
HighTierTokens == <<<<"p","r","o">>, <<"p","l","u","s">>, <<"m","a","x">>, <<"u","l","t","r","a">>, <<"9">>, <<"8">>, <<"7">>, <<"o","n","e","p","l","u","s">>, <<"s","a","m","s","u","n","g"," ","s">>>>

\* The heuristic with the high-tier tokens tested before the low-tier ones
cpu_tier_high_first(device_name) ==
    LET dn == lower(device_name)
    IN  IF any_in(dn, HighTierTokens) THEN "high"
        ELSE IF any_in(dn, LowTierTokens) THEN "low"
        ELSE "mid"

\* lines 147-164
cpu_tier_of(device_name) ==
    LET dn == lower(device_name)
    IN  IF any_in(dn, LowTierTokens) THEN "low"
        ELSE IF any_in(dn, HighTierTokens) THEN "high"
        ELSE "mid"

\* The profile when the DPI keeps its initial value of line 167 in the
\* mid tier
dynamic_device_profile_base_dpi(device_name) ==
    LET tier == cpu_tier_of(device_name)
        graphics == IF tier = "low" THEN "Low/Medium" ELSE IF tier = "mid" THEN "Medium" ELSE "High"
        fps == IF tier = "low" THEN "30" ELSE IF tier = "mid" THEN "30-60" ELSE "60"
        cm(g) == IF g = S_bgmi THEN (IF tier # "high" THEN <<30, 35, 40>> ELSE <<20, 25, 30>>)
                 ELSE (IF tier # "high" THEN <<25, 30, 35>> ELSE <<18, 22, 26>>)
    IN  [ram_gb |-> IF tier = "low" THEN 2 ELSE IF tier = "high" THEN 8 ELSE 4,
         cpu_tier |-> tier,
         presets |-> [g \in {S_freefire, S_bgmi, S_cod} |->
                        Preset(IF tier = "low" THEN 360 ELSE IF tier = "mid" THEN 400 ELSE 560,
                               cm(g), graphics, fps)],
         internal_steps |-> <<"Reboot before gaming.",
                              "Close background apps.",
                              "Keep at least 2-5 GB free storage.",
                              "Disable battery saver and aggressive background restrictions for the game.",
                              "Lower graphics if device heats up.">>,
         lag_fix |-> <<"Close background apps and clear cache.",
                       "Use stable Wi-Fi and check ping.",
                       "Lower in-game graphics and FPS if needed.">>]

dynamic_device_profile(device_name) ==
    LET tier == cpu_tier_of(device_name)
        ram == IF tier = "low" THEN 2 ELSE IF tier = "high" THEN 8 ELSE 4
        base_dpi == IF tier = "low" THEN 360 ELSE IF tier = "mid" THEN 480 ELSE 560
        graphics == IF tier = "low" THEN "Low/Medium" ELSE IF tier = "mid" THEN "Medium" ELSE "High"
        fps == IF tier = "low" THEN "30" ELSE IF tier = "mid" THEN "30-60" ELSE "60"
        cm(g) == IF g = S_freefire THEN (IF tier # "high" THEN <<25, 30, 35>> ELSE <<18, 22, 26>>)
                 ELSE IF g = S_bgmi THEN (IF tier # "high" THEN <<30, 35, 40>> ELSE <<20, 25, 30>>)
                 ELSE (IF tier # "high" THEN <<25, 30, 35>> ELSE <<18, 22, 26>>)
    IN  [ram_gb |-> ram, cpu_tier |-> tier,
         presets |-> [g \in {S_freefire, S_bgmi, S_cod} |-> Preset(base_dpi, cm(g), graphics, fps)],
         internal_steps |-> <<"Reboot before gaming.",
                              "Close background apps.",
                              "Keep at least 2-5 GB free storage.",
                              "Disable battery saver and aggressive background restrictions for the game.",
                              "Lower graphics if device heats up.">>,
         lag_fix |-> <<"Close background apps and clear cache.",
                       "Use stable Wi-Fi and check ping.",
                       "Lower in-game graphics and FPS if needed.">>]

\* A lookup that takes the first catalog key the device name contains
resolve_profile_containing(device) ==
    LET dev_key == get_device_key(device)
        keys == {k \in DeviceKeys : contains(dev_key, k)}
    IN  IF keys # {} THEN DEVICES(CHOOSE k \in keys : TRUE)
        ELSE dynamic_device_profile(device)

\* Catalog entry when the key is known, heuristic profile otherwise
\* (lines 317-322, 328-333, 339-344, 445-449)
resolve_profile(device) ==
    LET dev_key == get_device_key(device)
    IN  IF dev_key \in DeviceKeys THEN DEVICES(dev_key)
        ELSE dynamic_device_profile(device)

(***************************************************************************)
(* control_layout_suggestions (lines 544-581): <<layout, device hint>>     *)
(***************************************************************************)
control_layout_suggestions(game, device) ==
    LET g == lower(game)
        base == IF contains(g, <<"f","r","e","e","f","i","r","e">>) \/ contains(g, <<"f","r","e","e"," ","f","i","r","e">>) \/ contains(g, <<"f","f">>)
                  THEN "Free Fire layout"
                ELSE IF contains(g, <<"b","g","m","i">>) \/ contains(g, <<"p","u","b","g">>) THEN "BGMI/PUBG layout"
                ELSE IF contains(g, <<"c","o","d">>) \/ contains(g, <<"c","a","l","l"," ","o","f"," ","d","u","t","y">>) THEN "COD Mobile layout"
                ELSE "Default FPS layout"
        hint == IF contains(lower(device), S_iphone) THEN "iPhone hint" ELSE "large screen hint"
    IN  <<base, hint>>

(***************************************************************************)
(* Sessions, the profiles file, replies                                    *)
(***************************************************************************)
\* update.effective_user.id of the users that talk to the bot
Users == {"u1", "u2"}

\* context.user_data of a user who has not interacted yet: an empty dict.
\* A flag that is absent and a flag that is False read the same through
\* user_data.get(flag), so a flag is a boolean.
FreshUserData ==
    [awaiting_password |-> FALSE, awaiting_device |-> FALSE, awaiting_dpi |-> FALSE,
     awaiting_cm360 |-> FALSE, awaiting_problem |-> FALSE, unlocked |-> FALSE,
     selected_game |-> Absent, device |-> Absent, dpi |-> NoInt]

\* A dict uid -> {"device": ..., "game": ...}
NoEntry == [present |-> FALSE, device |-> None, game |-> None]
Entry(device, game) == [present |-> TRUE, device |-> device, game |-> game]
EmptyDict == [u \in Users |-> NoEntry]

\* The JSON text of profiles.json, as the JSON value it denotes
NoJsonEntry == [present |-> FALSE, device |-> JNull, game |-> JNull]
EmptyJson == [u \in Users |-> NoJsonEntry]
MissingFile == [kind |-> "missing", obj |-> EmptyJson]
CorruptFile == [kind |-> "corrupt", obj |-> EmptyJson]
JsonFile(obj) == [kind |-> "json", obj |-> obj]

\* json.dumps / json.loads on the values the program stores
json_dump_value(v) == IF v.tag = "str" THEN JString(v.val) ELSE JNull
json_load_value(j) == IF j.tag = "string" THEN Str(j.val) ELSE None
json_dumps(profiles) ==
    [u \in Users |-> IF profiles[u].present
                     THEN [present |-> TRUE,
                           device |-> json_dump_value(profiles[u].device),
                           game |-> json_dump_value(profiles[u].game)]
                     ELSE NoJsonEntry]
json_loads(obj) ==
    [u \in Users |-> IF obj[u].present
                     THEN Entry(json_load_value(obj[u].device), json_load_value(obj[u].game))
                     ELSE NoEntry]

\* load_profiles that starts from an empty dict whatever the file holds
load_profiles_ignoring_file(file) == EmptyDict

\* load_profiles (lines 128-134): {} when the file is missing or unreadable
load_profiles(file) ==
    IF file.kind = "json" THEN json_loads(file.obj) ELSE EmptyDict

\* save_profiles (lines 136-137): the whole file is rewritten
save_profiles(profiles) == JsonFile(json_dumps(profiles))

\* What a handler sends back; "ERROR" is a handler that ended in an
\* unhandled exception and sent nothing.
Reply(kind, data) == [kind |-> kind, data |-> data]
Raised == Reply("ERROR", <<>>)

\* The outcome of a handler up to its last await that is followed by a
\* write to user_data: the session and the file as written so far, the reply,
\* and the flag still to be set after that await ("none": nothing is left).
Result(ud, file, reply, cont) == [ud |-> ud, file |-> file, reply |-> reply, cont |-> cont]

\* build_submenu_for_device (lines 272-286): the keyboard is fixed; line 274
\* calls .upper() on the selected game and raises when it is None.
build_submenu_for_device(ud) == GetOr(ud.selected_game, S_unknown).tag # "none"

(***************************************************************************)
(* start, start_menu_router, game_select_router (lines 218-270)            *)
(***************************************************************************)
start(ud, file) == Result(ud, file, Reply("root_menu", <<>>), "none")

start_menu_router(ud, file, data) ==
    IF data = D_start_main THEN Result(ud, file, Reply("welcome", <<>>), "none")
    ELSE IF data = D_password
         THEN Result([ud EXCEPT !.awaiting_password = TRUE], file,
                     Reply("ask_password", <<>>), "none")
    ELSE IF data = D_menu_games THEN Result(ud, file, Reply("game_menu", <<>>), "none")
    ELSE Result(ud, file, Reply("no_reply", <<>>), "none")

game_select_router(ud, file, data) ==
    IF data = D_cancel THEN Result(ud, file, Reply("cancelled", <<>>), "none")
    ELSE IF startswith(data, D_game_prefix)
         THEN LET game_key == SUPPORTED_GAMES(data)
              IN  IF game_key.tag = "none"
                  THEN Result(ud, file, Reply("game_not_supported", <<>>), "none")
                  ELSE \* line 266, the reply of line 267, then line 269
                       Result([ud EXCEPT !.selected_game = game_key], file,
                              Reply("ask_device", <<upper(game_key.val)>>), "awaiting_device")
    ELSE Result(ud, file, Reply("no_reply", <<>>), "none")

(***************************************************************************)
(* submenu_router (lines 288-397)                                          *)
(***************************************************************************)
submenu_save_profile(ud, file, uid) ==
    LET profiles == load_profiles(file)
        entry == Entry(GetOrNone(ud.device), GetOrNone(ud.selected_game))
        written == save_profiles([profiles EXCEPT ![uid] = entry])
    IN  IF build_submenu_for_device(ud)
        THEN Result(ud, written, Reply("profile_saved", <<entry>>), "none")
        ELSE Result(ud, written, Raised, "none")

submenu_load_profile(ud, file, uid) ==
    LET profiles == load_profiles(file)
        entry == profiles[uid]
        loaded == [ud EXCEPT !.device = entry.device, !.selected_game = entry.game]
    IN  IF entry.present
        THEN IF build_submenu_for_device(loaded)
             THEN Result(loaded, file, Reply("profile_loaded", <<entry>>), "none")
             ELSE Result(loaded, file, Raised, "none")
        ELSE IF build_submenu_for_device(ud)
             THEN Result(ud, file, Reply("no_saved_profile", <<>>), "none")
             ELSE Result(ud, file, Raised, "none")

\* sub_internal / sub_lagfix / sub_ingame / sub_controls (lines 315-369);
\* device and game are the values of lines 292-293, game is not None here.
submenu_query(ud, file, data, device, game) ==
    IF device.tag = "none" THEN Result(ud, file, Raised, "none")   \* None.strip() / None.lower()
    ELSE IF data = D_sub_internal
         THEN Result(ud, file,
                     Reply("internal", <<device.val, resolve_profile(device.val).internal_steps>>),
                     "none")
    ELSE IF data = D_sub_lagfix
         THEN Result(ud, file,
                     Reply("lagfix", <<device.val, resolve_profile(device.val).lag_fix>>), "none")
    ELSE IF data = D_sub_ingame
         THEN LET presets == PresetGet(resolve_profile(device.val).presets, game)
              IN  IF presets.found
                  THEN Result(ud, file,
                              Reply("ingame", <<device.val, upper(game), presets.preset>>), "none")
                  ELSE Result(ud, file,
                              Reply("ingame_none", <<device.val, upper(game)>>), "none")
    ELSE Result(ud, file,
                Reply("controls", control_layout_suggestions(game, device.val)), "none")

submenu_router(ud, file, uid, data) ==
    LET device == GetOr(ud.device, S_UnknownDevice)
        gameOpt == GetOr(ud.selected_game, S_unknown)
    IN  IF gameOpt.tag = "none" THEN Result(ud, file, Raised, "none")   \* line 293: None.lower()
        ELSE LET game == lower(gameOpt.val) IN
        IF data = D_back_games
        THEN Result([ud EXCEPT !.device = Absent, !.selected_game = Absent], file,
                    Reply("game_menu", <<>>), "none")
        ELSE IF data = D_sub_sensitivity
        THEN Result([ud EXCEPT !.awaiting_dpi = TRUE], file, Reply("ask_dpi", <<>>), "none")
        ELSE IF data \in {D_sub_internal, D_sub_lagfix, D_sub_ingame, D_sub_controls}
        THEN submenu_query(ud, file, data, device, game)
        ELSE IF data = D_sub_problems
        THEN Result([ud EXCEPT !.awaiting_problem = TRUE], file, Reply("ask_problem", <<>>), "none")
        ELSE IF data = D_sub_save_profile THEN submenu_save_profile(ud, file, uid)
        ELSE IF data = D_sub_load_profile THEN submenu_load_profile(ud, file, uid)
        ELSE Result(ud, file, Reply("unknown_submenu_option", <<>>), "none")

(***************************************************************************)
(* universal_text_router (lines 399-539)                                   *)
(***************************************************************************)
\* The password branch writing the outcome of the comparison into unlocked,
\* so that a wrong attempt locks an unlocked session again
text_password_relock(ud, file, txt) ==
    Result([ud EXCEPT !.awaiting_password = FALSE, !.unlocked = (txt = BOT_PASSWORD)], file,
           Reply(IF txt = BOT_PASSWORD THEN "password_ok" ELSE "wrong_password", <<>>), "none")

\* lines 404-412
text_password(ud, file, txt) ==
    LET cleared == [ud EXCEPT !.awaiting_password = FALSE]
    IN  IF txt = BOT_PASSWORD
        THEN Result([cleared EXCEPT !.unlocked = TRUE], file, Reply("password_ok", <<>>), "none")
        ELSE Result(cleared, file, Reply("wrong_password", <<>>), "none")

\* lines 415-422
text_device(ud, file, txt) ==
    LET stored == [ud EXCEPT !.awaiting_device = FALSE, !.device = Str(txt)]
    IN  IF build_submenu_for_device(stored)
        THEN Result(stored, file, Reply("got_device", <<txt>>), "none")
        ELSE Result(stored, file, Raised, "none")

\* lines 425-434
text_dpi(ud, file, txt) ==
    IF ~isdigit(txt) THEN Result(ud, file, Reply("dpi_reprompt", <<>>), "none")
    ELSE LET dpi == int(txt)
         IN  IF ~dpi.ok THEN Result(ud, file, Raised, "none")      \* ValueError, line 429
             ELSE Result([ud EXCEPT !.dpi = IntVal(dpi.val), !.awaiting_dpi = FALSE,
                                    !.awaiting_cm360 = TRUE],
                         file, Reply("got_dpi", <<>>), "none")

\* lines 444-455: the suggested cm/360 list, each with its sensitivity
SensitivityPairs(suggestions, dpi) ==
    [i \in 1..Len(suggestions) |->
        <<suggestions[i], cm360_to_sensitivity(FloatOfInt(suggestions[i]), dpi)>>]

text_cm360_default(cleared, file, device, game, dpi) ==
    IF device.tag = "none" THEN Result(cleared, file, Raised, "none")   \* None.strip()
    ELSE LET presets == PresetGet(resolve_profile(device.val).presets, lower(game))
             suggestions == IF presets.found THEN presets.preset.cm360_suggested ELSE <<>>
             pairs == SensitivityPairs(suggestions, dpi)
         IN  IF \E i \in 1..Len(pairs) : pairs[i][2].kind = "raise"
             THEN Result(cleared, file, Raised, "none")                 \* ZeroDivisionError
             ELSE Result(cleared, file,
                         Reply("suggestions", <<device.val, game, suggestions, dpi, pairs>>),
                         "none")

\* lines 456-470: any exception of float() or of the conversion re-prompts
text_cm360_value(cleared, file, device, game, dpi, txt) ==
    LET cm360 == float(txt)
        sens == cm360_to_sensitivity(cm360.val, dpi)
    IN  IF cm360.ok /\ sens.kind # "raise"
        THEN Result(cleared, file,
                    Reply("sensitivity", <<device, game, dpi, cm360.val, sens>>), "none")
        ELSE Result(cleared, file, Reply("cm360_reprompt", <<>>), "awaiting_cm360")

\* lines 437-470
text_cm360(ud, file, txt) ==
    LET txt_low == lower(txt)
        dpi == IF ud.dpi.tag = "absent" THEN DefaultDpi ELSE ud.dpi.val
        device == GetOr(ud.device, S_UnknownDevice)
        gameOpt == GetOr(ud.selected_game, S_unknown)
        cleared == [ud EXCEPT !.awaiting_cm360 = FALSE]
    IN  IF gameOpt.tag = "none" THEN Result(ud, file, Raised, "none")   \* line 441: None.upper()
        ELSE IF txt_low = S_default
             THEN text_cm360_default(cleared, file, device, upper(gameOpt.val), dpi)
             ELSE text_cm360_value(cleared, file, device, upper(gameOpt.val), dpi, txt)

\* lines 478-504: the troubleshooting group of a problem description
ProblemGroup(desc) ==
    IF any_in(desc, <<<<"l","a","g">>, <<"f","p","s">>, <<"f","r","a","m","e">>, <<"s","t","u","t","t","e","r">>>>) THEN "lag/fps"
    ELSE IF any_in(desc, <<<<"c","r","a","s","h">>, <<"c","l","o","s","i","n","g">>, <<"f","o","r","c","e"," ","c","l","o","s","e">>, <<"s","t","o","p","p","e","d">>>>) THEN "crash"
    ELSE IF any_in(desc, <<<<"l","o","g","i","n">>, <<"a","u","t","h">>, <<"a","c","c","o","u","n","t">>, <<"b","a","n">>>>) THEN "login/account"
    ELSE "generic"

\* lines 473-506
text_problem(ud, file, txt) ==
    Result([ud EXCEPT !.awaiting_problem = FALSE], file,
           Reply("troubleshooting", <<ProblemGroup(lower(txt))>>), "none")

\* lines 509-518
text_load_profile(ud, file, uid) ==
    LET profiles == load_profiles(file)
        p == profiles[uid]
    IN  IF p.present
        THEN Result([ud EXCEPT !.device = p.device, !.selected_game = p.game], file,
                    Reply("profile_loaded_text", <<p>>), "none")
        ELSE Result(ud, file, Reply("no_saved_profile_text", <<>>), "none")

\* The keyword list with the bare word "free" that line 528 tests for
GameKeywordsWithFree == <<<<"f","r","e","e">>, <<"f","r","e","e"," ","f","i","r","e">>, <<"f","r","e","e","f","i","r","e">>, <<"f","f">>, <<"b","g","m","i">>, <<"p","u","b","g">>, <<"c","o","d">>, <<"c","a","l","l"," ","o","f"," ","d","u","t","y">>>>

GameKeywords == <<<<"f","r","e","e"," ","f","i","r","e">>, <<"f","r","e","e","f","i","r","e">>, <<"f","f">>, <<"b","g","m","i">>, <<"p","u","b","g">>, <<"c","o","d">>, <<"c","a","l","l"," ","o","f"," ","d","u","t","y">>>>

\* lines 528-533: the key is left as it was when no branch matches
KeywordGame(lowered, current) ==
    IF contains(lowered, <<"f","r","e","e">>) \/ contains(lowered, <<"f","r","e","e","f","i","r","e">>)
       \/ contains(lowered, <<"f","f">>)
    THEN Str(S_freefire)
    ELSE IF contains(lowered, <<"b","g","m","i">>) \/ contains(lowered, <<"p","u","b","g">>) THEN Str(S_bgmi)
    ELSE IF contains(lowered, <<"c","o","d">>)
            \/ contains(lowered, <<"c","a","l","l"," ","o","f"," ","d","u","t","y">>)
         THEN Str(S_cod)
    ELSE current

\* lines 525-536: lines 529-533, the reply of line 534, then line 535
text_game_keyword(ud, file, lowered) ==
    LET game == KeywordGame(lowered, ud.selected_game)
        chosen == [ud EXCEPT !.selected_game = game]
    IN  IF game.tag # "str" THEN Result(chosen, file, Raised, "none")   \* line 534
        ELSE Result(chosen, file, Reply("selected_ask_device", <<upper(game.val)>>),
                    "awaiting_device")

\* The text router testing the DPI flag before the device flag
universal_text_router_dpi_first(ud, file, uid, text) ==
    LET txt == strip(text)
    IN  IF ud.awaiting_password THEN text_password(ud, file, txt)
        ELSE IF ud.awaiting_dpi THEN text_dpi(ud, file, txt)
        ELSE IF ud.awaiting_device THEN text_device(ud, file, txt)
        ELSE IF ud.awaiting_cm360 THEN text_cm360(ud, file, txt)
        ELSE IF ud.awaiting_problem THEN text_problem(ud, file, txt)
        ELSE IF startswith(lower(txt), S_load_profile) THEN text_load_profile(ud, file, uid)
        ELSE IF startswith(lower(txt), S_help) THEN Result(ud, file, Reply("help", <<>>), "none")
        ELSE IF any_in(lower(txt), GameKeywords) THEN text_game_keyword(ud, file, lower(txt))
        ELSE Result(ud, file, Reply("fallback", <<>>), "none")

universal_text_router(ud, file, uid, text) ==
    LET txt == strip(text)
    IN  IF ud.awaiting_password THEN text_password(ud, file, txt)
        ELSE IF ud.awaiting_device THEN text_device(ud, file, txt)
        ELSE IF ud.awaiting_dpi THEN text_dpi(ud, file, txt)
        ELSE IF ud.awaiting_cm360 THEN text_cm360(ud, file, txt)
        ELSE IF ud.awaiting_problem THEN text_problem(ud, file, txt)
        ELSE IF startswith(lower(txt), S_load_profile) THEN text_load_profile(ud, file, uid)
        ELSE IF startswith(lower(txt), S_help) THEN Result(ud, file, Reply("help", <<>>), "none")
        ELSE IF any_in(lower(txt), GameKeywords) THEN text_game_keyword(ud, file, lower(txt))
        ELSE Result(ud, file, Reply("fallback", <<>>), "none")

(***************************************************************************)
(* The callback handlers main registers (lines 597-599).  A                *)
(* CallbackQueryHandler takes an update when re.match finds its pattern at *)
(* the start of the callback data; the handlers are tried in the order of  *)
(* their registration and the first that takes the update runs.  An update *)
(* no handler takes is dropped: no router runs and nothing is replied.     *)
(***************************************************************************)
\* line 597: "^(start_main|password|menu_games)$"
start_menu_pattern(data) == data \in {D_start_main, D_password, D_menu_games}

\* line 598: "^game_"
game_select_pattern(data) == startswith(data, D_game_prefix)

\* line 599: "^(sub_|back_games|cancel|sub_save_profile|sub_load_profile)$";
\* the group is closed by $, so the alternative sub_ matches that token only
submenu_pattern(data) ==
    data \in {<<"s","u","b","_">>, D_back_games, D_cancel,
              D_sub_save_profile, D_sub_load_profile}

callback_query(ud, file, uid, data) ==
    IF start_menu_pattern(data) THEN start_menu_router(ud, file, data)
    ELSE IF game_select_pattern(data) THEN game_select_router(ud, file, data)
    ELSE IF submenu_pattern(data) THEN submenu_router(ud, file, uid, data)
    ELSE Result(ud, file, Reply("not_handled", <<>>), "none")

(***************************************************************************)
(* Inputs                                                                  *)
(***************************************************************************)
T_iPhone12 == <<"i","P","h","o","n","e"," ","1","2">>
T_PocoX3 == <<"P","o","c","o"," ","X","3">>
T_poco_x3_padded == <<" ","p","o","c","o"," ","x","3"," ">>
T_OnePlus9 == <<"O","n","e","P","l","u","s"," ","9">>
T_480 == <<"4","8","0">>
T_400 == <<"4","0","0">>
T_0 == <<"0">>
T_default == <<"d","e","f","a","u","l","t">>
T_Default == <<"D","e","f","a","u","l","t">>
T_hi == <<"h","i">>
T_minus5 == <<"-","5">>
T_sup2 == <<SuperscriptTwo>>
T_load_profile == <<"l","o","a","d"," ","p","r","o","f","i","l","e">>
T_help == <<"h","e","l","p">>
T_free == <<"f","r","e","e">>
T_cod == <<"c","o","d">>
T_nan == <<"n","a","n">>
T_2point5 == <<"2",".","5">>

\* Profile store and isolation: every user picks a game, names a device, goes
\* back to the game menu, saves and loads.
StoreGameData == {D_game_bgmi}
StoreSubmenuData == {D_back_games, D_sub_save_profile, D_sub_load_profile}
StoreTexts == {T_iPhone12}

\* Conversation of one user
ChatUser == "u1"
ChatStartData == {D_password, D_menu_games}
ChatGameData == {D_cancel, D_game_bgmi}
ChatSubmenuData == {D_back_games, D_sub_sensitivity, D_sub_problems, D_sub_internal}
ChatTexts == {T_iPhone12, T_480, T_0, T_Default, T_hi, T_minus5, BOT_PASSWORD}

(***************************************************************************)
(* State                                                                   *)
(***************************************************************************)
VARIABLES
    user_data,      \* context.user_data of every user
    profiles_file,  \* profiles.json
    reply,          \* the reply to the last update: [user, kind, data]
    running,        \* per user: the flag a suspended handler sets when it resumes
    own_world,      \* per user: the session and file when only that user's updates are handled
    last_saved,     \* per user: the device and game of the user's last save
    script,         \* the scenario being run, if any, and the number of its updates delivered
    query           \* a call of a helper function on its own: its arguments and its result

vars == <<user_data, profiles_file, reply, running, own_world, last_saved, script, query>>

NoReply == [user |-> "nobody", kind |-> "none", data |-> <<>>]
NotSaved == [saved |-> FALSE, device |-> None, game |-> None]
NoScript == [game |-> <<>>, device |-> <<>>, dpi |-> <<>>, word |-> <<>>, pos |-> 0]
NoQuery == [fn |-> "none"]

InitWith(file) ==
    /\ user_data = [u \in Users |-> FreshUserData]
    /\ profiles_file = file
    /\ reply = NoReply
    /\ running = [u \in Users |-> "none"]
    /\ own_world = [u \in Users |-> [ud |-> FreshUserData, file |-> file]]
    /\ last_saved = [u \in Users |-> NotSaved]

\* profiles.json does not exist, is unreadable, or holds {}
Init ==
    /\ \E file \in {MissingFile, CorruptFile, JsonFile(EmptyJson)} : InitWith(file)
    /\ script = NoScript
    /\ query = NoQuery

\* Updates taken up without waiting for the handler before them, as with
\* concurrent_updates enabled
ConcurrentUpdates == TRUE

\* Application (lines 592-605) is built with the default concurrent_updates:
\* an update is taken up only when the handler of the one before has returned.
Idle == \A u \in Users : running[u] = "none"

\* The handler of an update of user u runs up to its last await that is
\* followed by a write; result is what it does on the session and the file,
\* alone what it does when only the updates of u are handled.
Deliver(u, result, alone) ==
    /\ Idle
    /\ \E r \in {result}, o \in {alone} :
        /\ user_data' = [user_data EXCEPT ![u] = r.ud]
        /\ profiles_file' = r.file
        /\ reply' = [user |-> u, kind |-> r.reply.kind, data |-> r.reply.data]
        /\ running' = [running EXCEPT ![u] = r.cont]
        /\ own_world' = [own_world EXCEPT ![u] = [ud |-> o.ud, file |-> o.file]]
        /\ last_saved' = IF r.reply.kind = "profile_saved"
                         THEN [last_saved EXCEPT ![u] =
                                 [saved |-> TRUE,
                                  device |-> GetOrNone(user_data[u].device),
                                  game |-> GetOrNone(user_data[u].selected_game)]]
                         ELSE last_saved
        /\ UNCHANGED query

SetFlag(ud, flag) ==
    IF flag = "awaiting_device" THEN [ud EXCEPT !.awaiting_device = TRUE]
    ELSE [ud EXCEPT !.awaiting_cm360 = TRUE]

\* The suspended handler of user u resumes and sets its flag (lines 269, 469, 535)
Resume(u) ==
    /\ running[u] # "none"
    /\ user_data' = [user_data EXCEPT ![u] = SetFlag(@, running[u])]
    /\ own_world' = [own_world EXCEPT ![u].ud = SetFlag(@, running[u])]
    /\ running' = [running EXCEPT ![u] = "none"]
    /\ UNCHANGED <<profiles_file, reply, last_saved, script, query>>

\* An update handed to the router whose branch implements its token or text.
\* The patterns under which main registers the routers (lines 597-599) are
\* modelled by callback_query and the action CallbackQuery below.
Start(u) ==
    Deliver(u, start(user_data[u], profiles_file),
               start(own_world[u].ud, own_world[u].file))
StartMenu(u, data) ==
    Deliver(u, start_menu_router(user_data[u], profiles_file, data),
               start_menu_router(own_world[u].ud, own_world[u].file, data))
GameSelect(u, data) ==
    Deliver(u, game_select_router(user_data[u], profiles_file, data),
               game_select_router(own_world[u].ud, own_world[u].file, data))
Submenu(u, data) ==
    Deliver(u, submenu_router(user_data[u], profiles_file, u, data),
               submenu_router(own_world[u].ud, own_world[u].file, u, data))
Text(u, text) ==
    Deliver(u, universal_text_router(user_data[u], profiles_file, u, text),
               universal_text_router(own_world[u].ud, own_world[u].file, u, text))

\* A button press as the application dispatches it (lines 597-599)
CallbackQuery(u, data) ==
    Deliver(u, callback_query(user_data[u], profiles_file, u, data),
               callback_query(own_world[u].ud, own_world[u].file, u, data))

(***************************************************************************)
(* Spec: the users' updates interleave; profile store and isolation        *)
(***************************************************************************)
Next ==
    \/ \E u \in Users, data \in StoreGameData : GameSelect(u, data) /\ UNCHANGED script
    \/ \E u \in Users, data \in StoreSubmenuData : Submenu(u, data) /\ UNCHANGED script
    \/ \E u \in Users, text \in StoreTexts : Text(u, text) /\ UNCHANGED script
    \/ \E u \in Users : Resume(u)

Spec == Init /\ [][Next]_vars

(***************************************************************************)
(* SpecChat: the conversation of one user                                  *)
(***************************************************************************)
NextChat ==
    \/ Start(ChatUser) /\ UNCHANGED script
    \/ \E data \in ChatStartData : StartMenu(ChatUser, data) /\ UNCHANGED script
    \/ \E data \in ChatGameData : GameSelect(ChatUser, data) /\ UNCHANGED script
    \/ \E data \in ChatSubmenuData : Submenu(ChatUser, data) /\ UNCHANGED script
    \/ \E text \in ChatTexts : Text(ChatUser, text) /\ UNCHANGED script
    \/ Resume(ChatUser)

InitChat == InitWith(MissingFile) /\ script = NoScript /\ query = NoQuery

SpecChat == InitChat /\ [][NextChat]_vars

(***************************************************************************)
(* SpecDispatch: the conversation of one user, every button of the menus   *)
(* going through the handlers as main registers them                       *)
(***************************************************************************)
MenuData ==
    {D_start_main, D_password, D_menu_games,
     D_game_freefire, D_game_bgmi, D_game_cod, D_cancel,
     D_sub_sensitivity, D_sub_internal, D_sub_lagfix, D_sub_ingame,
     D_sub_problems, D_sub_controls, D_sub_save_profile, D_sub_load_profile,
     D_back_games}

NextDispatch ==
    \/ Start(ChatUser) /\ UNCHANGED script
    \/ \E data \in MenuData : CallbackQuery(ChatUser, data) /\ UNCHANGED script
    \/ \E text \in ChatTexts : Text(ChatUser, text) /\ UNCHANGED script
    \/ Resume(ChatUser)

SpecDispatch == InitChat /\ [][NextDispatch]_vars

(***************************************************************************)
(* SpecScenario: one user, from a fresh session, sends /start, opens the   *)
(* game menu, picks a game, names a catalog device, picks Sensitivity,     *)
(* sends a DPI and asks for the default suggestions.                       *)
(***************************************************************************)
ScenarioGames == {D_game_freefire, D_game_bgmi, D_game_cod}
ScenarioDevices == {T_PocoX3, T_poco_x3_padded, T_iPhone12, T_OnePlus9}
ScenarioDpis == {T_480, T_400, BOT_PASSWORD}
ScenarioWords == {T_default, T_Default}

InitScenario ==
    /\ InitWith(MissingFile)
    /\ query = NoQuery
    /\ \E g \in ScenarioGames, d \in ScenarioDevices, n \in ScenarioDpis, w \in ScenarioWords :
          script = [game |-> g, device |-> d, dpi |-> n, word |-> w, pos |-> 0]

ScenarioStep ==
    /\ \/ script.pos = 0 /\ Start(ChatUser)
       \/ script.pos = 1 /\ CallbackQuery(ChatUser, D_menu_games)
       \/ script.pos = 2 /\ CallbackQuery(ChatUser, script.game)
       \/ script.pos = 3 /\ Text(ChatUser, script.device)
       \/ script.pos = 4 /\ CallbackQuery(ChatUser, D_sub_sensitivity)
       \/ script.pos = 5 /\ Text(ChatUser, script.dpi)
       \/ script.pos = 6 /\ Text(ChatUser, script.word)
    /\ script' = [script EXCEPT !.pos = @ + 1]

NextScenario == ScenarioStep \/ Resume(ChatUser)

SpecScenario == InitScenario /\ [][NextScenario]_vars

ScenarioDone == script.pos = 7 /\ Idle

(***************************************************************************)
(* Properties                                                              *)
(***************************************************************************)
NoPending(ud) ==
    /\ ~ud.awaiting_password /\ ~ud.awaiting_device /\ ~ud.awaiting_dpi
    /\ ~ud.awaiting_cm360 /\ ~ud.awaiting_problem

\* C3: from a fresh session, [/start, game menu, pick game g, text d, pick
\* Sensitivity, text of a DPI n, text "default"] with d a catalog device ends
\* with a reply that lists exactly the catalog's cm/360 suggestions for (d, g),
\* each with its conversion at DPI n, and with no pending flag set; for
\* "Poco X3" / bgmi / 480 these are 30, 35, 40 with 0.0014, 0.0012, 0.0010.
C3_ScenarioListsCatalogSuggestions ==
    ScenarioDone =>
      LET key == lower(strip(script.device))
          g == SUPPORTED_GAMES(script.game).val
          n == DigitsValue(script.dpi)
          sugg == DEVICES(key).presets[g].cm360_suggested
      IN  /\ key \in DeviceKeys
          /\ reply.user = ChatUser
          /\ reply.kind = "suggestions"
          /\ reply.data[3] = sugg
          /\ reply.data[4] = n
          /\ reply.data[5] = [i \in 1..Len(sugg) |->
                                <<sugg[i], cm360_to_sensitivity(FloatOfInt(sugg[i]), n)>>]
          /\ NoPending(user_data[ChatUser])
          /\ (key = S_poco_x3 /\ g = S_bgmi /\ n = 480) =>
                reply.data[5] = << <<30, Sens(14)>>, <<35, Sens(12)>>, <<40, Sens(10)>> >>

\* The session once the handler has returned
AfterResume(r) == IF r.cont = "none" THEN r.ud ELSE SetFlag(r.ud, r.cont)

\* Texts the universal text router is applied to in every reachable state
ProbeTexts ==
    {T_iPhone12, T_PocoX3, T_480, T_0, T_default, T_Default, T_hi, T_minus5, T_sup2,
     T_load_profile, T_help, T_free, T_cod, T_nan, T_2point5, BOT_PASSWORD}

\* C1: the handling of every update completes with a reply and never ends in
\* an unhandled error.
C1_NoUnhandledError == reply.kind # "ERROR"

\* C2: at most one of the flags awaiting password, device, DPI, cm/360 and
\* problem description is set.
PendingFlags(ud) ==
    {f \in {"password", "device", "dpi", "cm360", "problem"} :
        \/ f = "password" /\ ud.awaiting_password
        \/ f = "device" /\ ud.awaiting_device
        \/ f = "dpi" /\ ud.awaiting_dpi
        \/ f = "cm360" /\ ud.awaiting_cm360
        \/ f = "problem" /\ ud.awaiting_problem}

C2_AtMostOnePending == \A u \in Users : Cardinality(PendingFlags(user_data[u])) <= 1

\* C4: a text that is not numeric and not "default", received while the
\* session awaits DPI or cm/360, is answered with a re-prompt and leaves the
\* whole session as it was.
IsNumericText(t) == isdigit(strip(t)) \/ float(strip(t)).ok

C4_MalformedNumberReprompts ==
    \A u \in Users, t \in ProbeTexts :
        ( /\ Idle
          /\ user_data[u].awaiting_dpi \/ user_data[u].awaiting_cm360
          /\ ~IsNumericText(t)
          /\ lower(strip(t)) # S_default )
        => LET r == universal_text_router(user_data[u], profiles_file, u, t)
           IN  /\ r.reply.kind \in {"dpi_reprompt", "cm360_reprompt"}
               /\ AfterResume(r) = user_data[u]

\* C5: whenever dpi is set in a session, dpi > 0.
C5_DpiPositive == \A u \in Users : user_data[u].dpi.tag = "int" => user_data[u].dpi.val > 0

\* C6: while cm/360 is the input awaited, a text that parses as zero or as a
\* negative number is re-prompted like unparsable input and the session keeps
\* awaiting cm/360.
C6_NonPositiveCm360Reprompts ==
    \A u \in Users, t \in ProbeTexts :
        ( /\ Idle
          /\ PendingFlags(user_data[u]) = {"cm360"}
          /\ lower(strip(t)) # S_default
          /\ float(strip(t)).ok /\ ~IsPositive(float(strip(t)).val) )
        => LET r == universal_text_router(user_data[u], profiles_file, u, t)
           IN  /\ r.reply.kind = "cm360_reprompt"
               /\ AfterResume(r).awaiting_cm360

\* C7 as claimed: with no pending flag, every text without a game keyword gets
\* the generic fallback and leaves the session unchanged.
C7_Keywords == {S_freefire, S_bgmi, S_cod, <<"f","r","e","e"," ","f","i","r","e">>, <<"f","f">>,
                <<"p","u","b","g">>, <<"c","a","l","l"," ","o","f"," ","d","u","t","y">>}
HasGameKeyword(t) == \E k \in C7_Keywords : contains(lower(strip(t)), k)
IsQuickCommand(t) ==
    \/ startswith(lower(strip(t)), S_load_profile)
    \/ startswith(lower(strip(t)), S_help)

FallsBackUnchanged(u, t) ==
    LET r == universal_text_router(user_data[u], profiles_file, u, t)
    IN  /\ r.reply.kind = "fallback"
        /\ r.cont = "none"
        /\ r.ud = user_data[u]
        /\ r.file = profiles_file

C7_Original ==
    \A u \in Users, t \in ProbeTexts :
        (Idle /\ NoPending(user_data[u]) /\ ~HasGameKeyword(t)) => FallsBackUnchanged(u, t)

\* C7 (amended): with no pending flag, every text that contains no game keyword
\* and does not start with "load profile" or "help" gets the generic fallback
\* and leaves the session (device, game, dpi, unlocked, flags) and the profile
\* store unchanged.
C7_UnrecognizedTextFallsBack ==
    \A u \in Users, t \in ProbeTexts :
        (Idle /\ NoPending(user_data[u]) /\ ~HasGameKeyword(t) /\ ~IsQuickCommand(t))
        => FallsBackUnchanged(u, t)

C7_Witness ==
    /\ reply.kind = "fallback"
    /\ Idle
    /\ NoPending(user_data[ChatUser])
    /\ user_data[ChatUser].device.tag = "str"
    /\ user_data[ChatUser].unlocked

\* The stored form of a saved session value
StoredValue(v) == IF v.tag = "str" THEN JString(v.val) ELSE JNull

\* C8: once user u has saved a profile from a session with device d and game
\* g, the load-profile action of u answers with exactly {device: d, game: g}
\* and sets the session's device and game to d and g; for a user who never
\* saved it reports that no profile was found.
C8_SaveLoadRoundTrip ==
    \A u \in Users :
        Idle =>
            LET r == submenu_router(user_data[u], profiles_file, u, D_sub_load_profile)
            IN  IF last_saved[u].saved
                THEN /\ r.reply.kind = "profile_loaded"
                     /\ r.reply.data[1] = Entry(last_saved[u].device, last_saved[u].game)
                     /\ r.ud.device = last_saved[u].device
                     /\ r.ud.selected_game = last_saved[u].game
                ELSE r.reply.kind = "no_saved_profile"

\* C9: whatever the interleaving of the save-profile actions of distinct
\* users, the store holds the record of every user whose save completed, each
\* equal to what that user saved; no save drops or overwrites the record of
\* another user.
C9_ConcurrentSavesAllPersist ==
    \A u \in Users :
        last_saved[u].saved =>
            /\ profiles_file.kind = "json"
            /\ profiles_file.obj[u].present
            /\ profiles_file.obj[u].device = StoredValue(last_saved[u].device)
            /\ profiles_file.obj[u].game = StoredValue(last_saved[u].game)

C9_Witness ==
    /\ \A u \in Users : last_saved[u].saved
    /\ last_saved["u1"].device.tag = "str"
    /\ last_saved["u1"].game.tag = "str"
    /\ last_saved["u2"] # last_saved["u1"]
    /\ reply.kind = "profile_saved"

\* C10: the session of a user is changed only by the handling of that user's
\* own updates, it always equals the session obtained by handling that user's
\* updates alone, and while a handler is suspended between two of its writes
\* no other update is taken up, so no handler observes a partial write.
OnlyOwnUpdates ==
    \A u \in Users :
        user_data'[u] # user_data[u] => (reply'.user = u \/ running[u] # "none")

SuspendedStepIsResume ==
    \A u \in Users :
        running[u] # "none" =>
            /\ user_data' = [user_data EXCEPT ![u] = SetFlag(user_data[u], running[u])]
            /\ running' = [running EXCEPT ![u] = "none"]
            /\ UNCHANGED <<profiles_file, reply>>

C10_SessionIsolation ==
    /\ [](\A u \in Users : user_data[u] = own_world[u].ud)
    /\ [][OnlyOwnUpdates]_vars
    /\ [][SuspendedStepIsResume]_vars

C10_Witness ==
    /\ running["u1"] = "awaiting_device"
    /\ user_data["u2"].device.tag = "str"
    /\ user_data["u2"].awaiting_device = FALSE
    /\ user_data["u1"] # user_data["u2"]
    /\ reply.user = "u1"

\* The record a save of session ud leaves for its user, and the records a
\* file holds
SavedRecord(ud) ==
    [present |-> TRUE, device |-> StoredValue(GetOrNone(ud.device)),
     game |-> StoredValue(GetOrNone(ud.selected_game))]
RecordsOf(file) == IF file.kind = "json" THEN file.obj ELSE EmptyJson

\* C11: the save-profile action of user u writes u's record as {device, game}
\* of u's session (absent fields as null), leaves the record of every other
\* user and u's session as they were, also when the store was missing, empty
\* or unreadable.
C11_SaveWritesOnlyOwnRecord ==
    \A u \in Users :
        Idle =>
            LET r == submenu_router(user_data[u], profiles_file, u, D_sub_save_profile)
            IN  /\ RecordsOf(r.file)[u] = SavedRecord(user_data[u])
                /\ \A v \in Users \ {u} : RecordsOf(r.file)[v] = RecordsOf(profiles_file)[v]
                /\ r.ud = user_data[u]

\* The session after a stored record has been loaded into it
SessionValue(j) == IF j.tag = "string" THEN Str(j.val) ELSE None
LoadedSession(ud, rec) ==
    [ud EXCEPT !.device = SessionValue(rec.device), !.selected_game = SessionValue(rec.game)]

LoadOutcome(u, r, not_found) ==
    LET rec == RecordsOf(profiles_file)[u]
    IN  /\ r.file = profiles_file
        /\ r.cont = "none"
        /\ IF rec.present
           THEN r.ud = LoadedSession(user_data[u], rec)
           ELSE r.ud = user_data[u] /\ r.reply.kind = not_found

\* C12: the load-profile action, by the submenu button or by the text "load
\* profile", overwrites exactly the session's device and game with the stored
\* values when the user has a record; when there is none it tells the user so
\* and changes neither the session nor the store.
C12_LoadOverwritesDeviceAndGame ==
    \A u \in Users :
        Idle =>
            /\ LoadOutcome(u, submenu_router(user_data[u], profiles_file, u, D_sub_load_profile),
                           "no_saved_profile")
            /\ NoPending(user_data[u]) =>
                   LoadOutcome(u, universal_text_router(user_data[u], profiles_file, u, T_load_profile),
                               "no_saved_profile_text")

PasswordProbeTexts ==
    {BOT_PASSWORD, <<" "," ","1","2","3","4"," ">>, <<"1","2","3","4","5">>, T_hi, T_480, T_Default}

PasswordOutcome(u, t, unlocked) ==
    LET r == universal_text_router(user_data[u], profiles_file, u, t)
    IN  /\ r.cont = "none"
        /\ r.file = profiles_file
        /\ r.ud = [user_data[u] EXCEPT !.awaiting_password = FALSE, !.unlocked = unlocked]

\* C13 as claimed: a text received while the password is awaited clears the
\* flag and leaves unlocked true exactly when the text is the secret.
C13_Original ==
    \A u \in Users, t \in PasswordProbeTexts :
        (Idle /\ user_data[u].awaiting_password) => PasswordOutcome(u, t, t = BOT_PASSWORD)

\* C13 (amended): a text received while the password is awaited clears the
\* awaiting-password flag in every case; it sets unlocked when the text without
\* its leading and trailing blanks equals the secret, and otherwise leaves
\* unlocked as it was; nothing else in the session or the store changes.
C13_PasswordText ==
    \A u \in Users, t \in PasswordProbeTexts :
        (Idle /\ user_data[u].awaiting_password)
        => PasswordOutcome(u, t, strip(t) = BOT_PASSWORD \/ user_data[u].unlocked)

C13_Witness ==
    /\ reply.kind = "wrong_password"
    /\ user_data[ChatUser].unlocked
    /\ ~user_data[ChatUser].awaiting_password
    /\ user_data[ChatUser].awaiting_device

T_cod_free == <<"c","o","d"," ","f","r","e","e">>
KeywordProbeTexts ==
    {T_cod_free, T_cod, T_hi,
     <<"F","r","e","e"," ","F","i","r","e">>,
     <<"f","f">>,
     <<"B","G","M","I">>,
     <<"p","u","b","g"," ","m","o","b","i","l","e">>,
     <<"C","a","l","l"," ","o","f"," ","D","u","t","y">>,
     <<"b","g","m","i"," ","o","r"," ","c","o","d">>}

\* The games whose keywords a text contains
KeywordsOf(g) ==
    IF g = S_freefire THEN {<<"f","r","e","e"," ","f","i","r","e">>, <<"f","r","e","e","f","i","r","e">>, <<"f","f">>}
    ELSE IF g = S_bgmi THEN {<<"b","g","m","i">>, <<"p","u","b","g">>}
    ELSE {<<"c","o","d">>, <<"c","a","l","l"," ","o","f"," ","d","u","t","y">>}
GamesNamed(t) ==
    {g \in {S_freefire, S_bgmi, S_cod} : \E k \in KeywordsOf(g) : contains(lower(strip(t)), k)}

\* C14: with no pending flag, a text that contains a game keyword sets the
\* selected game to a game one of its keywords belongs to and enters awaiting
\* device, changing nothing else; a text whose keywords all belong to one game
\* selects that game.
C14_KeywordSelectsItsGame ==
    \A u \in Users, t \in KeywordProbeTexts :
        (Idle /\ NoPending(user_data[u]) /\ ~IsQuickCommand(t) /\ GamesNamed(t) # {})
        => LET r == universal_text_router(user_data[u], profiles_file, u, t)
           IN  /\ r.file = profiles_file
               /\ \E g \in GamesNamed(t) :
                     AfterResume(r) = [user_data[u] EXCEPT !.selected_game = Str(g),
                                                           !.awaiting_device = TRUE]

\* The profile the claim resolves for a device name
CatalogElseSynthesizer(name) ==
    IF lower(strip(name)) \in DeviceKeys THEN DEVICES(lower(strip(name)))
    ELSE dynamic_device_profile(name)

QuerySlice(ud, data, r) ==
    LET name == IF ud.device.tag = "str" THEN ud.device.val ELSE S_UnknownDevice
        profile == CatalogElseSynthesizer(name)
        game == IF ud.selected_game.tag = "str" THEN ud.selected_game.val ELSE S_unknown
    IN  IF data = D_sub_internal
        THEN r.reply.kind = "internal" /\ r.reply.data[2] = profile.internal_steps
        ELSE IF data = D_sub_lagfix
        THEN r.reply.kind = "lagfix" /\ r.reply.data[2] = profile.lag_fix
        ELSE IF data = D_sub_ingame
        THEN IF game \in DOMAIN profile.presets
             THEN r.reply.kind = "ingame" /\ r.reply.data[3] = profile.presets[game]
             ELSE r.reply.kind = "ingame_none"
        ELSE r.reply.kind = "controls"

\* C15: in every session state each of the submenu actions internal, lagfix,
\* ingame and controls answers with its slice of the profile taken from the
\* catalog when the trimmed lower-cased device name is a catalog key and from
\* the synthesizer otherwise, and leaves the session and the store unchanged.
C15_QueriesAreStateless ==
    \A u \in Users, data \in {D_sub_internal, D_sub_lagfix, D_sub_ingame, D_sub_controls} :
        Idle =>
            LET r == submenu_router(user_data[u], profiles_file, u, data)
            IN  /\ r.ud = user_data[u]
                /\ r.file = profiles_file
                /\ r.cont = "none"
                /\ QuerySlice(user_data[u], data, r)

ProblemProbeTexts ==
    {T_hi, <<"l","a","g"," ","t","h","e","n"," ","c","r","a","s","h">>, <<"C","r","a","s","h"," ","a","t"," ","l","o","g","i","n">>, <<"a","c","c","o","u","n","t"," ","b","a","n">>, <<"F","P","S"," ","d","r","o","p">>, <<"f","o","r","c","e"," ","c","l","o","s","e">>,
     <<"g","a","m","e"," ","s","t","o","p","p","e","d",","," ","t","h","e","n"," ","b","a","n","n","e","d">>}

\* The keyword groups in their order of priority
ProblemKeywords(group) ==
    IF group = "lag/fps" THEN {<<"l","a","g">>, <<"f","p","s">>, <<"f","r","a","m","e">>, <<"s","t","u","t","t","e","r">>}
    ELSE IF group = "crash" THEN {<<"c","r","a","s","h">>, <<"c","l","o","s","i","n","g">>, <<"f","o","r","c","e"," ","c","l","o","s","e">>, <<"s","t","o","p","p","e","d">>}
    ELSE {<<"l","o","g","i","n">>, <<"a","u","t","h">>, <<"a","c","c","o","u","n","t">>, <<"b","a","n">>}
Mentions(t, group) == \E k \in ProblemKeywords(group) : contains(lower(strip(t)), k)
FirstGroup(t) ==
    IF Mentions(t, "lag/fps") THEN "lag/fps"
    ELSE IF Mentions(t, "crash") THEN "crash"
    ELSE IF Mentions(t, "login/account") THEN "login/account"
    ELSE "generic"

\* C16: a text received while a problem description is awaited clears the
\* awaiting flag and gets the guidance of the first keyword group it matches
\* in the order performance, crash, account, else the generic guidance.
C16_ProblemClassified ==
    \A u \in Users, t \in ProblemProbeTexts :
        (Idle /\ user_data[u].awaiting_problem)
        => LET r == universal_text_router(user_data[u], profiles_file, u, t)
           IN  /\ r.reply.kind = "troubleshooting"
               /\ r.reply.data[1] = FirstGroup(t)
               /\ AfterResume(r) = [user_data[u] EXCEPT !.awaiting_problem = FALSE]
               /\ r.file = profiles_file

(***************************************************************************)
(* SpecProfile: get_device_key, the catalog lookup and                     *)
(* dynamic_device_profile applied to device names on their own             *)
(***************************************************************************)
NameWords ==
    {<<"l","i","t","e">>, <<"p","r","o">>, <<"e","n","t","r","y">>, <<"c","3">>, <<"a","0","3">>, <<"p","l","u","s">>, <<"m","a","x">>, <<"u","l","t","r","a">>, <<"9">>, <<"o","n","e","p","l","u","s">>,
     <<"s","a","m","s","u","n","g"," ","s">>, <<"g","a","l","a","x","y">>, <<"n","o","k","i","a">>, <<"m","o","t","o"," ","g">>, <<"x","3">>}
BaseNames ==
    NameWords \cup {w1 \o << " " >> \o w2 : w1, w2 \in NameWords}
              \cup DeviceKeys
              \cup {<<"p","o","c","o"," ","x","3"," ","p","r","o">>, <<"m","y"," ","i","p","h","o","n","e"," ","1","2">>, <<"p","o","c","o"," "," ","x","3">>, <<"p","o","c","o","x","3">>, <<"o","n","e","p","l","u","s"," ","9","t">>}
Casings == {"lower", "upper", "title"}
Paddings == {<< <<>>, <<>> >>, << << " " >>, <<>> >>, << << " ", " " >>, << " " >> >>}

Cased(s, casing) ==
    IF casing = "upper" THEN upper(s)
    ELSE IF casing = "title"
         THEN [i \in 1..Len(s) |-> IF i = 1 \/ s[i - 1] = " " THEN UpperChar(s[i]) ELSE s[i]]
    ELSE s

InitProfile ==
    /\ InitWith(MissingFile)
    /\ script = NoScript
    /\ \E base \in BaseNames, casing \in Casings, pad \in Paddings :
          query = [fn |-> "name", base |-> base, padded |-> pad # << <<>>, <<>> >>,
                   name |-> pad[1] \o Cased(base, casing) \o pad[2],
                   out |-> dynamic_device_profile(<<>>)]

\* dynamic_device_profile(device_name)
Synthesize ==
    /\ query.fn = "name"
    /\ query' = [query EXCEPT !.fn = "synthesize", !.out = dynamic_device_profile(query.name)]
    /\ UNCHANGED <<user_data, profiles_file, reply, running, own_world, last_saved, script>>

\* dev_key = get_device_key(device); DEVICES[dev_key] if dev_key in DEVICES,
\* else dynamic_device_profile(device)
Lookup ==
    /\ query.fn = "name"
    /\ query' = [query EXCEPT !.fn = "lookup", !.out = resolve_profile(query.name)]
    /\ UNCHANGED <<user_data, profiles_file, reply, running, own_world, last_saved, script>>

NextProfile == Synthesize \/ Lookup

SpecProfile == InitProfile /\ [][NextProfile]_vars

(***************************************************************************)
(* The conversion as a function of its two arguments: a whole cm/360 value *)
(* and a DPI, as lines 452 and 459 hand them to cm360_to_sensitivity.      *)
(***************************************************************************)
MaxCm360 == 40
ConvertDpis == {400, 440, 480, 560, 800}

InitConvert ==
    /\ InitWith(MissingFile)
    /\ script = NoScript
    /\ \E cm360 \in 1..MaxCm360, dpi \in ConvertDpis :
          query = [fn |-> "pair", cm360 |-> cm360, dpi |-> dpi, out |-> Sens(0)]

Convert ==
    /\ query.fn = "pair"
    /\ query' = [query EXCEPT !.fn = "convert",
                              !.out = cm360_to_sensitivity(FloatOfInt(query.cm360),
                                                           query.dpi)]
    /\ UNCHANGED <<user_data, profiles_file, reply, running, own_world,
                   last_saved, script>>

NextConvert == Convert

SpecConvert == InitConvert /\ [][NextConvert]_vars

C17_LowTokens == {<<"l","i","t","e">>, <<"y">>, <<"e","n","t","r","y">>, <<"c","3">>, <<"a","0","3">>}
C17_HighTokens == {<<"p","r","o">>, <<"p","l","u","s">>, <<"m","a","x">>, <<"u","l","t","r","a">>, <<"9">>, <<"8">>, <<"7">>, <<"o","n","e","p","l","u","s">>, <<"s","a","m","s","u","n","g"," ","s">>}
HasToken(name, tokens) == \E k \in tokens : contains(lower(name), k)

\* C17: a device name that, lower-cased, contains a low-tier token is low tier
\* with 2 GB even when it also contains a high-tier token; a name with no
\* low-tier token and a high-tier token is high tier with 8 GB; every other
\* name is mid tier with 4 GB.
C17_TierPrecedence ==
    query.fn = "synthesize" =>
        LET low == HasToken(query.name, C17_LowTokens)
            high == HasToken(query.name, C17_HighTokens)
        IN  /\ low => query.out.cpu_tier = "low" /\ query.out.ram_gb = 2
            /\ (~low /\ high) => query.out.cpu_tier = "high" /\ query.out.ram_gb = 8
            /\ (~low /\ ~high) => query.out.cpu_tier = "mid" /\ query.out.ram_gb = 4

C17_Witness ==
    /\ query.fn = "synthesize"
    /\ query.name = <<"L","i","t","e"," ","P","r","o">>
    /\ query.out.cpu_tier = "low"
    /\ query.out.ram_gb = 2

\* C18: for every device name the synthesized profile has a tier in {low, mid,
\* high}, a preset for each of freefire, bgmi and cod with the DPI of the tier
\* (360, 480, 560), the game's cm/360 triple (the lower one for high tier) and
\* the graphics/fps pair of the tier, and the same internal and lag-fix steps
\* whatever the name.
C18_SynthesizedProfile ==
    query.fn = "synthesize" =>
        LET out == query.out
            tier == out.cpu_tier
        IN  /\ tier \in {"low", "mid", "high"}
            /\ DOMAIN out.presets = {S_freefire, S_bgmi, S_cod}
            /\ \A g \in DOMAIN out.presets :
                  /\ out.presets[g].dpi =
                        (IF tier = "low" THEN 360 ELSE IF tier = "mid" THEN 480 ELSE 560)
                  /\ out.presets[g].cm360_suggested =
                        (IF g = S_bgmi
                         THEN (IF tier = "high" THEN <<20, 25, 30>> ELSE <<30, 35, 40>>)
                         ELSE (IF tier = "high" THEN <<18, 22, 26>> ELSE <<25, 30, 35>>))
                  /\ out.presets[g].recommended_in_game =
                        (IF tier = "low" THEN [graphics |-> "Low/Medium", fps |-> "30"]
                         ELSE IF tier = "mid" THEN [graphics |-> "Medium", fps |-> "30-60"]
                         ELSE [graphics |-> "High", fps |-> "60"])
            /\ out.internal_steps = <<"Reboot before gaming.",
                                      "Close background apps.",
                                      "Keep at least 2-5 GB free storage.",
                                      "Disable battery saver and aggressive background restrictions for the game.",
                                      "Lower graphics if device heats up.">>
            /\ out.lag_fix = <<"Close background apps and clear cache.",
                               "Use stable Wi-Fi and check ping.",
                               "Lower in-game graphics and FPS if needed.">>

C18_Witness ==
    /\ query.fn = "synthesize"
    /\ query.name = <<"G","A","L","A","X","Y">>
    /\ query.out.presets[S_bgmi].dpi = 360
    /\ query.out.presets[S_bgmi].cm360_suggested = <<30, 35, 40>>

\* C19: the catalog lookup finds a device name that is a catalog key up to
\* letter case and leading and trailing blanks, resolves every other name,
\* also one that merely contains a key, through the synthesizer, and every
\* catalog entry has for each of the three games a preset with a non-empty
\* cm/360 list and a DPI above zero.
C19_CatalogLookup ==
    /\ query.fn = "lookup" =>
          IF query.base \in {<<"p","o","c","o"," ","x","3">>, <<"i","p","h","o","n","e"," ","1","2">>, <<"o","n","e","p","l","u","s"," ","9">>}
          THEN query.out = DEVICES(query.base)
          ELSE query.out = dynamic_device_profile(query.name)
    /\ \A key \in DeviceKeys :
          /\ DOMAIN DEVICES(key).presets = {S_freefire, S_bgmi, S_cod}
          /\ \A g \in DOMAIN DEVICES(key).presets :
                /\ Len(DEVICES(key).presets[g].cm360_suggested) > 0
                /\ \A i \in 1..Len(DEVICES(key).presets[g].cm360_suggested) :
                      DEVICES(key).presets[g].cm360_suggested[i] > 0
                /\ DEVICES(key).presets[g].dpi > 0

C19_Witness ==
    /\ query.fn = "lookup"
    /\ query.name = <<" "," ","I","P","H","O","N","E"," ","1","2"," ">>
    /\ query.out.presets[S_bgmi].cm360_suggested = <<20, 22, 25>>
    /\ query.out.ram_gb = 4

\* C20: the conversion never raises: in every session that awaits a cm/360
\* value, with the DPI that session hands to the conversion (480 when none is
\* stored), every cm/360 at or below zero converts to 0 and every cm/360
\* above zero converts to a number.
C20_Cm360Values ==
    {float(t).val : t \in {<<"0">>, <<"-","5">>, <<"3","0">>, <<"0",".","5">>, <<"2","2">>}}

C20_ConvertNeverRaises ==
    \A u \in Users :
        user_data[u].awaiting_cm360 =>
            LET dpi == IF user_data[u].dpi.tag = "absent" THEN 480
                       ELSE user_data[u].dpi.val
            IN  \A cm360 \in C20_Cm360Values :
                    LET sens == cm360_to_sensitivity(cm360, dpi)
                    IN  IF IsPositive(cm360) THEN sens.kind = "num"
                        ELSE sens = Sens(0)

\* C21 as stated: convert(30, 480) with the default game scale equals 0.0013.
C21_Original ==
    (query.fn = "convert" /\ query.cm360 = 30 /\ query.dpi = 480)
        => query.out = Sens(13)

\* C21: convert(30, 480) with the default game scale, that is
\* round(360 / (30 * 0.393701 * 480) * 0.022, 4), equals 0.0014.
C21_ConvertExample ==
    (query.fn = "convert" /\ query.cm360 = 30 /\ query.dpi = 480)
        => query.out = Sens(14)

C21_Witness ==
    /\ query.fn = "convert"
    /\ query.cm360 = 30
    /\ query.dpi = 480
    /\ query.out.kind = "num"

\* C22: every token of a menu button is dispatched to the router branch that
\* implements it: in every state a press of the token does to the session,
\* the file and the reply what that router does; in particular the
\* sensitivity button sets the DPI flag and cancel is answered "cancelled".
C22_RouterOf(ud, file, uid, data) ==
    IF data \in {D_start_main, D_password, D_menu_games}
    THEN start_menu_router(ud, file, data)
    ELSE IF data \in {D_game_freefire, D_game_bgmi, D_game_cod, D_cancel}
    THEN game_select_router(ud, file, data)
    ELSE submenu_router(ud, file, uid, data)

C22_EveryTokenDispatched ==
    \A u \in Users :
        /\ \A data \in MenuData :
              callback_query(user_data[u], profiles_file, u, data)
                  = C22_RouterOf(user_data[u], profiles_file, u, data)
        /\ (user_data[u].selected_game.tag # "none") =>
              callback_query(user_data[u], profiles_file, u, D_sub_sensitivity).ud.awaiting_dpi
        /\ callback_query(user_data[u], profiles_file, u, D_cancel).reply.kind = "cancelled"

\* C23: a free text is consumed by the branch of the first pending flag in the
\* order password, device, DPI, cm/360, problem: the reply is one of that
\* branch and every other flag that was set stays set; the quick commands and
\* the game keywords answer only when no flag is pending; and no button clears
\* a pending flag, so a flag set earlier is still set after back-to-games or a
\* new game pick and captures the next free text.
C23_Order == <<"password", "device", "dpi", "cm360", "problem">>

C23_FirstPending(ud) ==
    IF PendingFlags(ud) = {} THEN "none"
    ELSE C23_Order[CHOOSE i \in 1..5 :
                      /\ C23_Order[i] \in PendingFlags(ud)
                      /\ \A j \in 1..(i - 1) : C23_Order[j] \notin PendingFlags(ud)]

C23_RepliesOf(branch) ==
    IF branch = "password" THEN {"password_ok", "wrong_password"}
    ELSE IF branch = "device" THEN {"got_device", "ERROR"}
    ELSE IF branch = "dpi" THEN {"dpi_reprompt", "got_dpi", "ERROR"}
    ELSE IF branch = "cm360" THEN {"suggestions", "sensitivity", "cm360_reprompt", "ERROR"}
    ELSE IF branch = "problem" THEN {"troubleshooting"}
    ELSE {"profile_loaded_text", "no_saved_profile_text", "help",
          "selected_ask_device", "fallback", "ERROR"}

C23_ButtonResults(u) ==
    {start(user_data[u], profiles_file)}
    \cup {start_menu_router(user_data[u], profiles_file, data) : data \in MenuData}
    \cup {game_select_router(user_data[u], profiles_file, data) : data \in MenuData}
    \cup {submenu_router(user_data[u], profiles_file, u, data) : data \in MenuData}
    \cup {callback_query(user_data[u], profiles_file, u, data) : data \in MenuData}

C24_AwaitingNumberHasGameAndDevice ==
    \A u \in Users :
        /\ (user_data[u].awaiting_dpi \/ user_data[u].awaiting_cm360) =>
              /\ user_data[u].selected_game \in {Str(S_freefire), Str(S_bgmi), Str(S_cod)}
              /\ user_data[u].device.tag = "str"
        /\ (/\ user_data[u].awaiting_cm360
            /\ ~user_data[u].awaiting_password
            /\ ~user_data[u].awaiting_device
            /\ ~user_data[u].awaiting_dpi) =>
              LET r == universal_text_router(user_data[u], profiles_file, u,
                                             <<"d","e","f","a","u","l","t">>)
              IN  /\ r.reply.kind = "suggestions"
                  /\ Len(r.reply.data[3]) > 0
                  /\ Len(r.reply.data[5]) = Len(r.reply.data[3])

====
